---------------------------- MODULE Spec2Model ----------------------------
(***************************************************************************)
(* Trading-performance analytics: load_data, validate_market_features,     *)
(* compute_metrics, segment_by_column and the run_analysis driver that     *)
(* assembles the report and prints it as JSON.                             *)
(*                                                                         *)
(* Numbers.  A float is a record [t, n, d]: t = "fin" is the rational n/d  *)
(* in lowest terms (d > 0), t = "nan" is not-a-number, t = "inf" is an     *)
(* infinity.  Finite arithmetic is exact; rounding is round-half-to-even  *)
(* on the exact value.  An infinity carries its sign in n (1 or -1).       *)
(*                                                                         *)
(* Tables.  A DataFrame is [columns, rows]; a row is a record of its       *)
(* column values plus "copies", a run length: the row stands for that many *)
(* consecutive identical rows of the table.                                *)
(***************************************************************************)
EXTENDS Integers, Sequences, FiniteSets, TLC

VARIABLES csv, df, pc, error, overall, segmentation, behavior, final_report, printed

vars == <<csv, df, pc, error, overall, segmentation, behavior, final_report, printed>>

---------------------------------------------------------------------------
(* Bounds of the explored inputs *)

MaxRows == 2

MaxBulkRows == 2

BulkRun == 2000

MaxDeficientRows == 1

---------------------------------------------------------------------------
(* Floats *)

RECURSIVE GCD(_, _)
GCD(a, b) == IF b = 0 THEN a ELSE GCD(b, a % b)

IAbs(i) == IF i < 0 THEN -i ELSE i

NaN == [t |-> "nan", n |-> 0, d |-> 1]

Inf == [t |-> "inf", n |-> 1, d |-> 1]

\* the rational n/d (d # 0) in lowest terms
Fin(n, d) ==
    LET g == GCD(IAbs(n), IAbs(d))
        s == IF d < 0 THEN -1 ELSE 1
    IN  [t |-> "fin", n |-> s * (n \div g), d |-> s * (d \div g)]

IsFin(x) == x.t = "fin"

NegInf == [t |-> "inf", n |-> -1, d |-> 1]

Sign(x) == IF x.n > 0 THEN 1 ELSE IF x.n < 0 THEN -1 ELSE 0

SignedInf(s) == IF s < 0 THEN NegInf ELSE Inf

\* faulty variant of FMul: a NaN operand is taken as zero
FMulNanAsZero(x, y) ==
    IF x.t = "nan" \/ y.t = "nan" THEN Fin(0, 1)
    ELSE IF x.t = "inf" \/ y.t = "inf"
         THEN IF Sign(x) * Sign(y) = 0 THEN NaN ELSE SignedInf(Sign(x) * Sign(y))
    ELSE LET a == Fin(x.n, y.d)
             b == Fin(y.n, x.d)
         IN  Fin(a.n * b.n, a.d * b.d)

\* x * y, IEEE-754: a NaN operand gives NaN, 0 * inf gives NaN
FMul(x, y) ==
    IF x.t = "nan" \/ y.t = "nan" THEN NaN
    ELSE IF x.t = "inf" \/ y.t = "inf"
         THEN IF Sign(x) * Sign(y) = 0 THEN NaN ELSE SignedInf(Sign(x) * Sign(y))
    ELSE LET a == Fin(x.n, y.d)
             b == Fin(y.n, x.d)
         IN  Fin(a.n * b.n, a.d * b.d)

\* x - y, IEEE-754: a NaN operand gives NaN, inf - inf gives NaN
FSub(x, y) ==
    IF x.t = "nan" \/ y.t = "nan" THEN NaN
    ELSE IF x.t = "inf"
         THEN IF y.t = "inf" /\ Sign(x) = Sign(y) THEN NaN ELSE x
    ELSE IF y.t = "inf" THEN SignedInf(-Sign(y))
    ELSE LET g == GCD(x.d, y.d)
             l == (x.d \div g) * y.d
         IN  Fin(x.n * (l \div x.d) - y.n * (l \div y.d), l)

\* x / y on numpy floats: a NaN operand gives NaN, 0/0 gives NaN, x/0 gives
\* a signed infinity
FDiv(x, y) ==
    IF x.t = "nan" \/ y.t = "nan" THEN NaN
    ELSE IF x.t = "inf"
         THEN IF y.t = "inf" THEN NaN
              ELSE SignedInf(Sign(x) * (IF Sign(y) < 0 THEN -1 ELSE 1))
    ELSE IF y.t = "inf" THEN Fin(0, 1)
    ELSE IF y.n = 0
         THEN IF x.n = 0 THEN NaN ELSE SignedInf(Sign(x))
    ELSE LET a == Fin(x.n, y.n)
             b == Fin(y.d, x.d)
         IN  Fin(a.n * b.n, a.d * b.d)

\* abs(x): NaN stays NaN
FAbs(x) ==
    IF IsFin(x) THEN Fin(IAbs(x.n), x.d)
    ELSE IF x.t = "inf" THEN Inf
    ELSE x

Pow10(k) == CASE k = 0 -> 1 [] k = 1 -> 10 [] k = 2 -> 100 [] k = 3 -> 1000

\* round(x, ndigits): half to even; NaN and inf are returned unchanged
FRound(x, ndigits) ==
    IF ~IsFin(x) THEN x
    ELSE LET m   == IAbs(x.n) * Pow10(ndigits)
             q   == m \div x.d
             r   == m % x.d
             up  == (2 * r > x.d) \/ (2 * r = x.d /\ q % 2 = 1)
             mag == IF up THEN q + 1 ELSE q
         IN  Fin((IF x.n < 0 THEN -1 ELSE 1) * mag, Pow10(ndigits))

---------------------------------------------------------------------------
(* Tables *)

\* an empty cell of the file, read as a missing value
Missing == "NaN"

\* Python's None
None == [t |-> "none"]

BaseColumns ==
    {"entry_price", "exit_price", "quantity", "direction", "holding_time"}

REQUIRED_MARKET_COLUMNS ==
    {"trend", "volatility", "volume_level", "distance_from_ma", "rsi_value",
     "distance_from_recent_high", "distance_from_recent_low"}

\* the columns run_analysis segments by, in the order of its calls
SegmentColumns ==
    <<"trend", "volatility", "direction", "time_of_day_bucket", "day_of_week">>

AllColumns ==
    BaseColumns \cup REQUIRED_MARKET_COLUMNS \cup {"time_of_day_bucket", "day_of_week"}

RECURSIVE SumFrom(_, _)
\* s[i] + ... + s[Len(s)]
SumFrom(s, i) == IF i > Len(s) THEN 0 ELSE s[i] + SumFrom(s, i + 1)

\* len(df): each row counted copies times
DfLen(d) == SumFrom([i \in 1..Len(d.rows) |-> d.rows[i].copies], 1)

\* Series.sum() of an integer column: 0 for an empty series
ColSum(d, col) ==
    SumFrom([i \in 1..Len(d.rows) |-> d.rows[i][col] * d.rows[i].copies], 1)

\* Series.mean(): NaN for an empty series
ColMean(d, col) ==
    IF DfLen(d) = 0 THEN NaN ELSE Fin(ColSum(d, col), DfLen(d))

---------------------------------------------------------------------------
(* data_loader.py *)

PnlOf(r) ==
    LET p == (r.exit_price - r.entry_price) * r.quantity
    IN  IF r.direction = "SHORT" THEN -p ELSE p

\* faulty variant of OutcomeOf: a trade with pnl = 0 is labelled WIN
OutcomeOfFlatWin(pnl) == IF pnl >= 0 THEN "WIN" ELSE "LOSS"

OutcomeOf(pnl) == IF pnl > 0 THEN "WIN" ELSE "LOSS"

\* f with the fields of g added
Extend(f, g) ==
    [c \in DOMAIN f \cup DOMAIN g |-> IF c \in DOMAIN g THEN g[c] ELSE f[c]]

DeriveRow(r) ==
    LET pnl == PnlOf(r)
    IN  Extend(r, [pnl        |-> pnl,
                   return_pct |-> FDiv(Fin(pnl, 1), Fin(r.entry_price * r.quantity, 1)),
                   outcome    |-> OutcomeOf(pnl)])

load_data(file) ==
    [columns |-> file.columns \cup {"pnl", "return_pct", "outcome"},
     rows    |-> [i \in 1..Len(file.rows) |-> DeriveRow(file.rows[i])]]

MissingMarketColumns(d) == REQUIRED_MARKET_COLUMNS \ d.columns

---------------------------------------------------------------------------
(* metric.py *)

\* faulty variant of IsWin: a trade with pnl = 0 counts as a win
IsWinOrFlat(r) == r.pnl >= 0

IsWin(r) == r.pnl > 0

IsLoss(r) == r.pnl <= 0

\* df[df["pnl"] > 0]: the rows the mask selects, in their order
Winners(d) == [columns |-> d.columns, rows |-> SelectSeq(d.rows, IsWin)]

\* df[df["pnl"] <= 0]
Losers(d) == [columns |-> d.columns, rows |-> SelectSeq(d.rows, IsLoss)]

\* (df["pnl"] > 0).mean()
WinRate(d) ==
    IF DfLen(d) = 0 THEN NaN ELSE Fin(DfLen(Winners(d)), DfLen(d))

AvgWin(d) == ColMean(Winners(d), "pnl")

AvgLoss(d) == FAbs(ColMean(Losers(d), "pnl"))

\* faulty variant of Expectancy: computed from the rounded values
ExpectancyOfRounded(win_rate, avg_win, avg_loss) ==
    FSub(FMul(FRound(win_rate, 3), FRound(avg_win, 2)),
         FMul(FSub(Fin(1, 1), FRound(win_rate, 3)), FRound(avg_loss, 2)))

Expectancy(win_rate, avg_win, avg_loss) ==
    FSub(FMul(win_rate, avg_win), FMul(FSub(Fin(1, 1), win_rate), avg_loss))

TotalProfit(d) == ColSum(Winners(d), "pnl")

\* faulty variant of TotalLoss: the abs() is left out
TotalLossSigned(d) == ColSum(Losers(d), "pnl")

TotalLoss(d) == IAbs(ColSum(Losers(d), "pnl"))

ProfitFactor(d) ==
    IF TotalLoss(d) # 0
    THEN FDiv(Fin(TotalProfit(d), 1), Fin(TotalLoss(d), 1))
    ELSE Inf

\* the record compute_metrics returns for a table it does not reject
MetricsRecord(d) ==
    [t             |-> "metrics",
     total_trades  |-> DfLen(d),
     win_rate      |-> FRound(WinRate(d), 3),
     avg_win       |-> FRound(AvgWin(d), 2),
     avg_loss      |-> FRound(AvgLoss(d), 2),
     expectancy    |-> FRound(Expectancy(WinRate(d), AvgWin(d), AvgLoss(d)), 2),
     profit_factor |-> FRound(ProfitFactor(d), 2)]

\* faulty variant of compute_metrics: no check for the empty table
compute_metrics_unchecked(d) == MetricsRecord(d)

compute_metrics(d) == IF DfLen(d) = 0 THEN None ELSE MetricsRecord(d)

---------------------------------------------------------------------------
(* segmentation.py *)

Raised(e) == [raised |-> TRUE, exc |-> e, value |-> None]

Returned(v) == [raised |-> FALSE, exc |-> "", value |-> v]

RECURSIVE GroupFold(_, _, _, _)
\* DataFrame.groupby(col): one pass over the rows; a row whose key is
\* missing is dropped (dropna=True), any other row is appended to the group
\* of its key
GroupFold(rows, i, col, groups) ==
    IF i > Len(rows) THEN groups
    ELSE LET key == rows[i][col]
         IN  IF key = Missing THEN GroupFold(rows, i + 1, col, groups)
             ELSE GroupFold(rows, i + 1, col,
                    [k \in DOMAIN groups \cup {key} |->
                        IF k = key
                        THEN (IF key \in DOMAIN groups THEN groups[key] ELSE <<>>)
                             \o <<rows[i]>>
                        ELSE groups[k]])

\* faulty variant of GroupBy: every group holds all the rows
GroupByUnfiltered(d, col) ==
    [k \in {d.rows[i][col] : i \in 1..Len(d.rows)} \ {Missing} |-> d.rows]

GroupBy(d, col) == GroupFold(d.rows, 1, col, <<>>)

\* the loop of segment_by_column: the metrics of every group
SegmentResults(d, column_name) ==
    LET groups == GroupBy(d, column_name)
    IN  [value \in DOMAIN groups |->
           compute_metrics([columns |-> d.columns, rows |-> groups[value]])]

\* faulty variant of segment_by_column: an unknown column gives an empty map
segment_by_column_lenient(d, column_name) ==
    IF column_name \notin d.columns THEN Returned(<<>>)
    ELSE Returned(SegmentResults(d, column_name))

\* groupby raises KeyError for a column the table does not have
segment_by_column(d, column_name) ==
    IF column_name \notin d.columns THEN Raised("KeyError")
    ELSE Returned(SegmentResults(d, column_name))

---------------------------------------------------------------------------
(* main.py *)

Unset == [t |-> "unset"]

\* the calls of run_analysis's segmentation dict that raise, by position
FailedCalls(d) ==
    {i \in DOMAIN SegmentColumns : segment_by_column(d, SegmentColumns[i]).raised}

\* the segmentation dict of run_analysis when no call raises
SegmentationDict(d) ==
    [trend       |-> segment_by_column(d, "trend").value,
     volatility  |-> segment_by_column(d, "volatility").value,
     direction   |-> segment_by_column(d, "direction").value,
     time_of_day |-> segment_by_column(d, "time_of_day_bucket").value,
     day_of_week |-> segment_by_column(d, "day_of_week").value]

Behavior(d) ==
    [avg_holding_time   |-> ColMean(d, "holding_time"),
     avg_win_hold_time  |-> ColMean(Winners(d), "holding_time"),
     avg_loss_hold_time |-> ColMean(Losers(d), "holding_time")]

\* json.dumps of a float: allow_nan is left True, so NaN and the infinities
\* are written as the bare tokens NaN, Infinity and -Infinity
JsonFloat(x) ==
    CASE x.t = "nan" -> [lit |-> "NaN", n |-> 0, d |-> 1]
      [] x.t = "inf" -> [lit |-> IF x.n < 0 THEN "-Infinity" ELSE "Infinity", n |-> 0, d |-> 1]
      [] OTHER       -> [lit |-> "number", n |-> x.n, d |-> x.d]

JsonNull == [lit |-> "null", n |-> 0, d |-> 1]

\* json.dumps of a compute_metrics result
JsonMetrics(m) ==
    IF m = None THEN JsonNull
    ELSE [total_trades  |-> [lit |-> "number", n |-> m.total_trades, d |-> 1],
          win_rate      |-> JsonFloat(m.win_rate),
          avg_win       |-> JsonFloat(m.avg_win),
          avg_loss      |-> JsonFloat(m.avg_loss),
          expectancy    |-> JsonFloat(m.expectancy),
          profit_factor |-> JsonFloat(m.profit_factor)]

json_dumps(report) ==
    [overall      |-> JsonMetrics(report.overall),
     segmentation |-> [name \in DOMAIN report.segmentation |->
                         [value \in DOMAIN report.segmentation[name] |->
                            JsonMetrics(report.segmentation[name][value])]],
     behavior     |-> [k \in DOMAIN report.behavior |-> JsonFloat(report.behavior[k])]]

---------------------------------------------------------------------------
(* The files read *)

EntryPrices == {100}

ExitPrices == {80, 100, 150}

Quantities == {1}

Directions == {"LONG", "SHORT"}

TrendValues == {"UP", "DOWN", Missing}

HoldingTimes == {5}

FileRow(entry, exit, qty, dirn, hold, trend, copies) ==
    [entry_price |-> entry, exit_price |-> exit, quantity |-> qty,
     direction |-> dirn, holding_time |-> hold, trend |-> trend,
     volatility |-> "LOW", volume_level |-> "HIGH", distance_from_ma |-> 0,
     rsi_value |-> 50, distance_from_recent_high |-> 0,
     distance_from_recent_low |-> 0, time_of_day_bucket |-> "AM",
     day_of_week |-> "MON", copies |-> copies]

FileRows(Trends, Copies) ==
    {FileRow(e, x, q, dirn, h, tr, c) :
        e \in EntryPrices, x \in ExitPrices, q \in Quantities,
        dirn \in Directions, h \in HoldingTimes, tr \in Trends, c \in Copies}

SeqsUpTo(S, n) == UNION {[1..k -> S] : k \in 0..n}

\* a file with the given columns only
File(columns, rows) ==
    [columns |-> columns,
     rows    |-> [i \in 1..Len(rows) |->
                    [c \in columns \cup {"copies"} |-> rows[i][c]]]]

\* pnl +100, +50, -30, -20; two trades in an up trend, two in a down trend
ScenarioA ==
    File(AllColumns,
         <<FileRow(100, 200, 1, "LONG", 5, "UP", 1),
           FileRow(100, 150, 1, "LONG", 5, "UP", 1),
           FileRow(100, 70, 1, "LONG", 5, "DOWN", 1),
           FileRow(100, 80, 1, "LONG", 5, "DOWN", 1)>>)

Files ==
    {File(AllColumns, rs) : rs \in SeqsUpTo(FileRows(TrendValues, {1}), MaxRows)}
    \cup {File(AllColumns, rs) :
             rs \in SeqsUpTo(FileRows({"UP"}, {1, BulkRun}), MaxBulkRows)}
    \cup {File(AllColumns \ {c}, rs) :
             c \in {"volatility", "day_of_week"},
             rs \in SeqsUpTo(FileRows(TrendValues, {1}), MaxDeficientRows)}
    \cup {ScenarioA}

---------------------------------------------------------------------------
(* run_analysis, then the printing of its report *)

Init ==
    /\ csv \in Files
    /\ df = Unset
    /\ pc = "start"
    /\ error = ""
    /\ overall = Unset
    /\ segmentation = Unset
    /\ behavior = Unset
    /\ final_report = Unset
    /\ printed = Unset

LoadData ==
    /\ pc = "start"
    /\ df' = load_data(csv)
    /\ pc' = "loaded"
    /\ UNCHANGED <<csv, error, overall, segmentation, behavior, final_report, printed>>

ValidateMarketFeatures ==
    /\ pc = "loaded"
    /\ IF MissingMarketColumns(df) # {}
       THEN pc' = "error" /\ error' = "ValueError"
       ELSE pc' = "validated" /\ error' = error
    /\ UNCHANGED <<csv, df, overall, segmentation, behavior, final_report, printed>>

ComputeOverall ==
    /\ pc = "validated"
    /\ overall' = compute_metrics(df)
    /\ pc' = "overall"
    /\ UNCHANGED <<csv, df, error, segmentation, behavior, final_report, printed>>

Segmentation ==
    /\ pc = "overall"
    /\ LET failed == FailedCalls(df)
       IN  IF failed # {}
           THEN /\ pc' = "error"
                /\ error' = segment_by_column(df,
                                SegmentColumns[CHOOSE i \in failed :
                                                  \A j \in failed : i <= j]).exc
                /\ segmentation' = segmentation
           ELSE /\ pc' = "segmented"
                /\ error' = error
                /\ segmentation' = SegmentationDict(df)
    /\ UNCHANGED <<csv, df, overall, behavior, final_report, printed>>

AssembleReport ==
    /\ pc = "segmented"
    /\ behavior' = Behavior(df)
    /\ final_report' = [overall      |-> overall,
                        segmentation |-> segmentation,
                        behavior     |-> behavior']
    /\ pc' = "returned"
    /\ UNCHANGED <<csv, df, error, overall, segmentation, printed>>

PrintReport ==
    /\ pc = "returned"
    /\ printed' = json_dumps(final_report)
    /\ pc' = "done"
    /\ UNCHANGED <<csv, df, error, overall, segmentation, behavior, final_report>>

Next ==
    \/ LoadData
    \/ ValidateMarketFeatures
    \/ ComputeOverall
    \/ Segmentation
    \/ AssembleReport
    \/ PrintReport

Spec == Init /\ [][Next]_vars

---------------------------------------------------------------------------
(* Quantities of the file read, counted from the file itself *)

\* the signed profit of a row of the file
FilePnl(r) ==
    (IF r.direction = "SHORT" THEN -1 ELSE 1) * (r.exit_price - r.entry_price) * r.quantity

NumTrades == SumFrom([i \in 1..Len(csv.rows) |-> csv.rows[i].copies], 1)

WinCount ==
    SumFrom([i \in 1..Len(csv.rows) |->
               IF FilePnl(csv.rows[i]) > 0 THEN csv.rows[i].copies ELSE 0], 1)

LossCount == NumTrades - WinCount

\* the sum of pnl over the trades with pnl > 0
WinningPnl ==
    SumFrom([i \in 1..Len(csv.rows) |->
               IF FilePnl(csv.rows[i]) > 0
               THEN FilePnl(csv.rows[i]) * csv.rows[i].copies ELSE 0], 1)

\* the sum of pnl over the trades with pnl <= 0 (never positive)
LosingPnl ==
    SumFrom([i \in 1..Len(csv.rows) |->
               IF FilePnl(csv.rows[i]) <= 0
               THEN FilePnl(csv.rows[i]) * csv.rows[i].copies ELSE 0], 1)

HasMetrics == overall # Unset /\ overall # None

\* a float with at most two decimals, in hundredths
Hundredths(x) == x.n * (100 \div x.d)

\* x is a two-decimal float within half a hundredth of num/den (den > 0)
RoundsTo2(x, num, den) ==
    /\ IsFin(x)
    /\ 100 % x.d = 0
    /\ 2 * IAbs(Hundredths(x) * den - 100 * num) <= den

---------------------------------------------------------------------------
(* C1: whenever the losing pnl of a non-empty table sums to zero, the       *)
(* profit_factor compute_metrics returns is an undefined/null marker, not  *)
(* an infinity, and the printed JSON report carries it as null.            *)
C1_ProfitFactorNullWhenNoLosses ==
    (pc = "done" /\ HasMetrics /\ LosingPnl = 0) =>
        /\ overall.profit_factor.t # "inf"
        /\ printed.overall.profit_factor.lit = "null"

C3_WinRateOneIffAllWins ==
    HasMetrics =>
        /\ IsFin(overall.win_rate)
        /\ 0 <= overall.win_rate.n /\ overall.win_rate.n <= overall.win_rate.d
        /\ (overall.win_rate = Fin(1, 1)) <=> (LossCount = 0)

(* C3, amended: the reported win_rate lies in [0, 1]; it is 1.0 when every  *)
(* trade has pnl > 0; and when it is 1.0 the trades with pnl <= 0 are at    *)
(* most one in 2000 of the table, so for fewer than 2000 trades it is 1.0   *)
(* exactly when every trade has pnl > 0.                                   *)
C3_WinRateOneUpToRounding ==
    HasMetrics =>
        /\ IsFin(overall.win_rate)
        /\ 0 <= overall.win_rate.n /\ overall.win_rate.n <= overall.win_rate.d
        /\ LossCount = 0 => overall.win_rate = Fin(1, 1)
        /\ overall.win_rate = Fin(1, 1) => 2 * Pow10(3) * LossCount <= NumTrades
        /\ NumTrades < 2 * Pow10(3) =>
              ((overall.win_rate = Fin(1, 1)) <=> (LossCount = 0))

C3_Witness ==
    /\ HasMetrics
    /\ LossCount > 0
    /\ overall.win_rate = Fin(1, 1)

---------------------------------------------------------------------------
(* Segment maps *)

\* the key of the report's segmentation dict that holds a column's map
ReportKey(col) == IF col = "time_of_day_bucket" THEN "time_of_day" ELSE col

RECURSIVE SumTotals(_, _)
\* the total_trades of the segments with keys in K, summed
SumTotals(segments, K) ==
    IF K = {} THEN 0
    ELSE LET k == CHOOSE x \in K : TRUE
         IN  (IF segments[k] = None THEN 0 ELSE segments[k].total_trades)
             + SumTotals(segments, K \ {k})

\* the trades of df whose value in col is v, as a table
Subset(col, v) ==
    [columns |-> df.columns,
     rows    |-> SelectSeq(df.rows, LAMBDA r : r[col] = v)]

(* C4: for every column segmented, the segments partition the trades: the   *)
(* total_trades of the returned segments sum to the number of trades,      *)
(* trades with a missing value in the column included.                     *)
C4_SegmentsPartitionTrades ==
    segmentation # Unset =>
        \A i \in DOMAIN SegmentColumns :
            LET segments == segmentation[ReportKey(SegmentColumns[i])]
            IN  SumTotals(segments, DOMAIN segments) = NumTrades

(* C5: compute_metrics returns None on an empty table, and on a non-empty   *)
(* one a metrics record whose total_trades is the number of trades.        *)
C5_EmptyGivesNone ==
    overall # Unset =>
        /\ NumTrades = 0 => overall = None
        /\ NumTrades > 0 =>
              /\ overall # None
              /\ overall.t = "metrics"
              /\ overall.total_trades = NumTrades

C5_Witness ==
    /\ pc = "done"
    /\ NumTrades = 0
    /\ overall = None
    /\ printed.overall = JsonNull

(* C6: expectancy is NaN whenever avg_win is undefined (no trade with       *)
(* pnl > 0) or avg_loss is undefined (no trade with pnl <= 0); the missing *)
(* term is never taken as zero.                                            *)
C6_ExpectancyUndefined ==
    HasMetrics =>
        /\ WinCount = 0 => overall.avg_win = NaN
        /\ LossCount = 0 => overall.avg_loss = NaN
        /\ (WinCount = 0 \/ LossCount = 0) => overall.expectancy = NaN

C6_Witness ==
    /\ HasMetrics
    /\ LossCount = 0
    /\ NumTrades > 1
    /\ IsFin(overall.avg_win)
    /\ overall.expectancy = NaN

(* C7: a trade is labelled WIN by load_data exactly when compute_metrics    *)
(* counts it as a win (pnl > 0); a trade with pnl = 0 is labelled LOSS, is  *)
(* left out of win_rate and avg_win, and is in the group avg_loss averages.*)
C7_ZeroPnlIsLoss ==
    /\ df # Unset =>
          \A i \in 1..Len(df.rows) :
              /\ (df.rows[i].outcome = "WIN") <=> IsWin(df.rows[i])
              /\ (df.rows[i].outcome = "LOSS") <=> IsLoss(df.rows[i])
              /\ df.rows[i].pnl = 0 => df.rows[i].outcome = "LOSS"
    /\ HasMetrics =>
          LET wins   == SumFrom([i \in 1..Len(df.rows) |->
                                   IF df.rows[i].outcome = "WIN"
                                   THEN df.rows[i].copies ELSE 0], 1)
              losses == SumFrom([i \in 1..Len(df.rows) |->
                                   IF df.rows[i].outcome = "LOSS"
                                   THEN df.rows[i].copies ELSE 0], 1)
              flat   == \A i \in 1..Len(df.rows) : df.rows[i].pnl = 0
          IN  /\ overall.win_rate = FRound(Fin(wins, NumTrades), 3)
              /\ (wins = 0) <=> (overall.avg_win = NaN)
              /\ (losses = 0) <=> (overall.avg_loss = NaN)
              /\ flat => /\ overall.win_rate = Fin(0, 1)
                         /\ overall.avg_win = NaN
                         /\ overall.avg_loss = Fin(0, 1)

C7_Witness ==
    /\ HasMetrics
    /\ \E i \in 1..Len(df.rows) : df.rows[i].pnl = 0 /\ df.rows[i].outcome = "LOSS"
    /\ \E i \in 1..Len(df.rows) : df.rows[i].outcome = "WIN"
    /\ overall.avg_loss = Fin(0, 1)

(* C8: for a table with a trade with pnl > 0 and one with pnl <= 0, avg_win  *)
(* is the mean winning pnl, avg_loss the negated mean losing pnl (so not   *)
(* negative) and expectancy win_rate * avg_win - (1 - win_rate) * avg_loss *)
(* of the unrounded values, which is (winning pnl + losing pnl) / trades,  *)
(* each rounded to two decimals only in the record; pnl +100, +50, -30,    *)
(* -20 gives 0.5, 75, 25, 25 and profit factor 3.                          *)
C8_MixedSetMetrics ==
    (HasMetrics /\ WinCount > 0 /\ LossCount > 0) =>
        /\ RoundsTo2(overall.avg_win, WinningPnl, WinCount)
        /\ RoundsTo2(overall.avg_loss, -LosingPnl, LossCount)
        /\ overall.avg_loss.n >= 0
        /\ RoundsTo2(overall.expectancy, WinningPnl + LosingPnl, NumTrades)
        /\ csv = ScenarioA =>
              overall = [t |-> "metrics", total_trades |-> 4,
                         win_rate |-> Fin(1, 2), avg_win |-> Fin(75, 1),
                         avg_loss |-> Fin(25, 1), expectancy |-> Fin(25, 1),
                         profit_factor |-> Fin(3, 1)]

C8_Witness ==
    /\ csv = ScenarioA
    /\ HasMetrics
    /\ overall.expectancy = Fin(25, 1)

(* C9: for every column segmented, the returned map has exactly one key per *)
(* distinct (non-missing) value observed in the column, and the value      *)
(* under each key is what compute_metrics gives on the trades with that    *)
(* value alone.                                                            *)
C9_SegmentsEqualDirectMetrics ==
    segmentation # Unset =>
        \A i \in DOMAIN SegmentColumns :
            LET col      == SegmentColumns[i]
                segments == segmentation[ReportKey(col)]
            IN  /\ DOMAIN segments =
                      {df.rows[j][col] : j \in 1..Len(df.rows)} \ {Missing}
                /\ \A v \in DOMAIN segments :
                      segments[v] = compute_metrics(Subset(col, v))

C9_Witness ==
    /\ csv = ScenarioA
    /\ segmentation # Unset
    /\ DOMAIN segmentation.trend = {"UP", "DOWN"}
    /\ segmentation.trend["UP"].total_trades = 2
    /\ segmentation.trend["DOWN"].total_trades = 2
    /\ segmentation.trend["UP"].avg_win = Fin(75, 1)
    /\ segmentation.trend["DOWN"].avg_loss = Fin(25, 1)

(* C10: segment_by_column on a column the table does not have ends in a     *)
(* KeyError and returns no map, also for a table without rows: the         *)
(* segmentation step of a run on such a table ends the run in that error   *)
(* and leaves no segmentation.                                             *)
C10_MissingColumnRaises ==
    [][(pc = "overall" /\ \E i \in DOMAIN SegmentColumns : SegmentColumns[i] \notin df.columns)
          => (pc' = "error" /\ error' = "KeyError" /\ segmentation' = Unset)]_vars

C10_Witness ==
    /\ pc = "error"
    /\ error = "KeyError"
    /\ Len(df.rows) = 0
    /\ "day_of_week" \notin df.columns
    /\ segmentation = Unset

=============================================================================
